---- MODULE Spec2Model ----
(***************************************************************************)
(* GoogleTrendsTool (src/google_trends_tool.py): the per-keyword fetch     *)
(* loop of _execute, the report generators and the four sinks.             *)
(*                                                                         *)
(* A keyword is the sequence of its space-separated words, so that         *)
(* k.replace(' ', '_') and the '_'.join of the file name are computed.     *)
(* A date is its position in the provider's date-ordered index.            *)
(* A data frame is the sequence of its rows.                               *)
(***************************************************************************)
EXTENDS Integers, Sequences, FiniteSets

VARIABLES
    keywords,                \* _execute argument: List[str]
    include_related_queries, \* _execute argument
    include_geo_analysis,    \* _execute argument
    include_seasonality,     \* _execute argument
    save_format,             \* _execute argument
    idx,                     \* position of the for loop in keywords
    pc,                      \* statement of _execute about to run
    combined_data,           \* local: the combined data frame
    report,                  \* local: the report, a sequence of sections
    calls,                   \* provider calls made so far, in order
    writes,                  \* sink write attempts made so far, in order
    table,                   \* table 'trends' of trends.db (outlives a call)
    result,                  \* how _execute ended: returned string or raised
    arg,                     \* argument of a report generator called alone
    ret                      \* its return value

vars == <<keywords, include_related_queries, include_geo_analysis,
          include_seasonality, save_format, idx, pc, combined_data, report,
          calls, writes, table, result, arg, ret>>

execVars == <<keywords, include_related_queries, include_geo_analysis,
              include_seasonality, save_format, idx, pc, combined_data,
              report, calls, writes, table, result>>

----------------------------------------------------------------------------
(* Bounds of the model *)

MaxKeywords == 2      \* longest keyword list
MaxRegions == 11      \* most regions in a region-interest table
MaxHistory == 4       \* most dates in a full-history series
MaxHistVal == 2       \* largest interest score in a full-history series

(* Program constant: head(10) of _generate_geo_report *)
TopN == 10

----------------------------------------------------------------------------
(* Helpers on sequences *)

(* The sequences over S of length at most n *)
SeqsUpTo(S, n) == UNION {[1..m -> S] : m \in 0..n}

RECURSIVE Flatten(_)
Flatten(ss) == IF ss = <<>> THEN <<>> ELSE Head(ss) \o Flatten(Tail(ss))

Range(s) == {s[j] : j \in 1..Len(s)}

(* An optional value: <<>> is Python's None, <<x>> is x *)
None == <<>>
Some(x) == <<x>>
ValueOf(o) == o[1]

----------------------------------------------------------------------------
(* Sample keywords: one of a single word, one of two words *)

Keywords == {<<"ai">>, <<"new", "york">>}

----------------------------------------------------------------------------
(* The report generators *)

(* data: the interest-over-time frame of one keyword, i.e. the sequence of  *)
(* its values in date order.  The header row is the fixed "Date  Interest", *)
(* a sequence of cells, each cell the sequence of its words.                *)
_generate_trend_report(data, keyword) ==
    [kind    |-> "trend",
     keyword |-> keyword,
     header  |-> <<<<"Date">>, <<"Interest">>>>,
     lines   |-> [j \in 1..Len(data) |-> <<j, data[j]>>]]

(* related_queries: the provider's bundle for the payload's keyword:       *)
(* present says whether the keyword is a key of it; top and rising are      *)
(* None or a frame of <<query, value>> rows.                                *)
_generate_related_queries_report(related_queries, keyword) ==
    [kind    |-> "related",
     keyword |-> keyword,
     header  |-> <<<<"Related", "Queries">>>>,
     lines   |->
        IF related_queries.present
        THEN (IF related_queries.top # None
              THEN <<<<"Top Related Queries for", keyword>>>>
                   \o ValueOf(related_queries.top)
              ELSE <<<<"No top related queries found for", keyword>>>>)
             \o
             (IF related_queries.rising # None
              THEN <<<<"Rising Queries for", keyword>>>>
                   \o ValueOf(related_queries.rising)
              ELSE <<<<"No rising queries found for", keyword>>>>)
        ELSE <<<<"No related queries data available for", keyword>>>>]

(* DataFrame.sort_values(by=keyword, ascending=False): rows of equal value  *)
(* keep the provider's order.                                               *)
RECURSIVE InsertDescending(_, _)
InsertDescending(sorted, row) ==
    IF sorted = <<>> THEN <<row>>
    ELSE IF Head(sorted).value >= row.value
         THEN <<Head(sorted)>> \o InsertDescending(Tail(sorted), row)
         ELSE <<row>> \o sorted

(* Mutant of sort_values: the sorted frame is dropped *)
sort_values_dropped(frame) == frame

RECURSIVE sort_values(_)
sort_values(frame) ==
    IF frame = <<>> THEN <<>>
    ELSE InsertDescending(sort_values(SubSeq(frame, 1, Len(frame) - 1)),
                          frame[Len(frame)])

(* DataFrame.head(n) *)
head(frame, n) == SubSeq(frame, 1, IF Len(frame) < n THEN Len(frame) ELSE n)

(* geo_data: the region-interest table, a sequence of [region, value] rows  *)
(* in the provider's order.  An empty table returns the placeholder alone.  *)
_generate_geo_report(geo_data, keyword) ==
    IF geo_data = <<>>
    THEN [kind    |-> "geo",
          keyword |-> keyword,
          header  |-> <<<<"No", "geographical", "data", "available">>>>,
          lines   |-> <<>>]
    ELSE LET geo_data_sorted == head(sort_values(geo_data), TopN)
         IN  [kind    |-> "geo",
              keyword |-> keyword,
              header  |-> <<<<"Geographical", "Analysis">>>>,
              lines   |-> [j \in 1..Len(geo_data_sorted) |->
                              <<geo_data_sorted[j].region, geo_data_sorted[j].value>>]]

(* Series.max() of a non-empty series *)
max(series) == CHOOSE m \in Range(series) : \A v \in Range(series) : v <= m

(* Mutant of peak_dates: idxmax, the first peak date only *)
peak_dates_first(series, max_interest) ==
    <<CHOOSE d \in 1..Len(series) :
        /\ series[d] = max_interest
        /\ \A e \in 1..(d - 1) : series[e] # max_interest>>

(* seasonality_data[seasonality_data[keyword] == max_interest].index *)
peak_dates(series, max_interest) ==
    SelectSeq([j \in 1..Len(series) |-> j], LAMBDA d : series[d] = max_interest)

(* seasonality_data: the full-history series of one keyword, date order *)
_generate_seasonality_report(seasonality_data, keyword) ==
    IF seasonality_data = <<>>
    THEN [kind    |-> "seasonality",
          keyword |-> keyword,
          header  |-> <<<<"No", "seasonality", "data", "available">>>>,
          lines   |-> <<>>]
    ELSE LET max_interest == max(seasonality_data)
             dates == peak_dates(seasonality_data, max_interest)
         IN  [kind    |-> "seasonality",
              keyword |-> keyword,
              header  |-> <<<<"Seasonality", "Analysis">>, <<"Seasonality", "for">> \o keyword>>,
              lines   |-> [j \in 1..Len(dates) |-> <<dates[j], max_interest>>]]


----------------------------------------------------------------------------
(* What the provider may answer inside _execute *)

InterestSamples == {<<>>, <<10, 30>>}

RelatedSamples ==
    {[present |-> FALSE, top |-> None, rising |-> None],
     [present |-> TRUE, top |-> Some(<<<<"query", 100>>>>), rising |-> None]}

GeoSamples == {<<>>, <<[region |-> 1, value |-> 10], [region |-> 2, value |-> 30]>>}

SeasonalitySamples == {<<>>, <<10, 30, 30>>}

Formats == {"txt", "csv", "json", "db", "xml"}

KeywordLists == SeqsUpTo(Keywords, MaxKeywords)

----------------------------------------------------------------------------
(* _execute *)

keyword == keywords[idx]

(* The statement that follows the trend, related and geo blocks *)
AfterGeo == IF include_seasonality THEN "seasonality" ELSE "next"
AfterRelated == IF include_geo_analysis THEN "geo" ELSE AfterGeo
AfterTrend == IF include_related_queries THEN "related" ELSE AfterRelated

(* Control moves to statement p of the loop body, or to the next keyword    *)
(* (after the pacing delay), or past the loop when the list is exhausted.   *)
Goto(p) ==
    IF p = "next"
    THEN /\ idx' = idx + 1
         /\ pc' = IF idx + 1 > Len(keywords) THEN "save" ELSE "interest"
    ELSE /\ idx' = idx
         /\ pc' = p

(* for keyword in keywords: an empty list skips the loop *)
LoopEntry(kws) == IF kws = <<>> THEN "save" ELSE "interest"

(* report += section, for the keyword at position idx of the list.  pos     *)
(* records that position: a keyword may occur twice in the list.            *)
Emit(section) ==
    Append(report, [pos     |-> idx,
                    kind    |-> section.kind,
                    keyword |-> section.keyword,
                    header  |-> section.header,
                    lines   |-> section.lines])

(* One provider call of the keyword at position idx, and how it ended *)
Call(name, outcome) ==
    Append(calls, [pos |-> idx, call |-> name, outcome |-> outcome])

(* Mutant of Except: the try wraps the loop, so the first error ends it *)
ExceptEndsLoop(e) ==
    /\ report' = Emit([kind    |-> "error",
                       keyword |-> keyword,
                       header  |-> <<>>,
                       lines   |-> <<e>>])
    /\ idx' = Len(keywords) + 1
    /\ pc' = "save"
    /\ result' = result

(* except Exception as e: report += "Error fetching data for ..." *)
Except(e) ==
    /\ report' = Emit([kind    |-> "error",
                       keyword |-> keyword,
                       header  |-> <<>>,
                       lines   |-> <<e>>])
    /\ Goto("next")
    /\ result' = result

(* Mutant of NoDataFound: the continue is missing *)
NoDataFoundFallsThrough ==
    /\ report' = Emit([kind    |-> "nodata",
                       keyword |-> keyword,
                       header  |-> <<>>,
                       lines   |-> <<>>])
    /\ Goto(AfterTrend)
    /\ UNCHANGED <<combined_data, result>>

(* if data.empty: report += "No trending data found for ..."; continue *)
NoDataFound ==
    /\ report' = Emit([kind    |-> "nodata",
                       keyword |-> keyword,
                       header  |-> <<>>,
                       lines   |-> <<>>])
    /\ Goto("next")
    /\ UNCHANGED <<combined_data, result>>

(* data['keyword'] = keyword; data.reset_index(): one row per date *)
reset_index(data, kw) ==
    [j \in 1..Len(data) |->
        [pos |-> idx, date |-> j, keyword |-> kw, value |-> data[j]]]

(* build_payload + interest_over_time, the empty check, the concat and the  *)
(* trend report                                                             *)
FetchInterest ==
    /\ pc = "interest"
    /\ \/ /\ calls' = Call("interest_over_time", "raised")
          /\ Except("interest_over_time")
          /\ UNCHANGED combined_data
       \/ \E data \in InterestSamples :
            IF data = <<>>
            THEN /\ calls' = Call("interest_over_time", "empty")
                 /\ NoDataFound
            ELSE /\ calls' = Call("interest_over_time", "data")
                 /\ combined_data' = combined_data \o reset_index(data, keyword)
                 /\ report' = Emit(_generate_trend_report(data, keyword))
                 /\ Goto(AfterTrend)
                 /\ UNCHANGED result
    /\ UNCHANGED <<keywords, include_related_queries, include_geo_analysis,
                   include_seasonality, save_format, writes, table,
                   arg, ret>>

(* if include_related_queries: related_queries + its report *)
FetchRelated ==
    /\ pc = "related"
    /\ \/ /\ calls' = Call("related_queries", "raised")
          /\ Except("related_queries")
       \/ \E related_queries \in RelatedSamples :
            /\ calls' = Call("related_queries", "data")
            /\ report' = Emit(_generate_related_queries_report(related_queries, keyword))
            /\ Goto(AfterRelated)
            /\ UNCHANGED result
    /\ UNCHANGED <<keywords, include_related_queries, include_geo_analysis,
                   include_seasonality, save_format, combined_data, writes,
                   table, arg, ret>>

(* if include_geo_analysis: interest_by_region + its report *)
FetchGeo ==
    /\ pc = "geo"
    /\ \/ /\ calls' = Call("interest_by_region", "raised")
          /\ Except("interest_by_region")
       \/ \E geo_data \in GeoSamples :
            /\ calls' = Call("interest_by_region", "data")
            /\ report' = Emit(_generate_geo_report(geo_data, keyword))
            /\ Goto(AfterGeo)
            /\ UNCHANGED result
    /\ UNCHANGED <<keywords, include_related_queries, include_geo_analysis,
                   include_seasonality, save_format, combined_data, writes,
                   table, arg, ret>>

(* _analyze_seasonality: the payload rebuilt with timeframe 'all' *)
_analyze_seasonality == SeasonalitySamples

(* if include_seasonality: _analyze_seasonality + its report, then the      *)
(* pacing delay                                                             *)
FetchSeasonality ==
    /\ pc = "seasonality"
    /\ \/ /\ calls' = Call("seasonality", "raised")
          /\ Except("seasonality")
       \/ \E seasonality_data \in _analyze_seasonality :
            /\ calls' = Call("seasonality", "data")
            /\ report' = Emit(_generate_seasonality_report(seasonality_data, keyword))
            /\ Goto("next")
            /\ UNCHANGED result
    /\ UNCHANGED <<keywords, include_related_queries, include_geo_analysis,
                   include_seasonality, save_format, combined_data, writes,
                   table, arg, ret>>

----------------------------------------------------------------------------
(* The sinks.  Each appends its write attempt to writes.  ok says whether    *)
(* the write went through; one that does not raises the sink's error out of *)
(* _execute and leaves the sink as it was.                                  *)

Running == [status |-> "running", message |-> <<>>]

Raised == [status |-> "raised", message |-> <<"sink error">>]

Returned(message) == [status |-> "returned", message |-> message]

_save_to_txt(rep, filename, ok) ==
    /\ writes' = Append(writes, [sink |-> "txt", ok |-> ok, name |-> filename, content |-> rep])
    /\ table' = table
    /\ result' = IF ok THEN Returned(<<"Successfully saved report to", filename>>)
                 ELSE Raised

_save_to_csv(data, filename, ok) ==
    /\ writes' = Append(writes, [sink |-> "csv", ok |-> ok, name |-> filename, content |-> data])
    /\ table' = table
    /\ result' = IF ok THEN Returned(<<"Successfully saved report to", filename>>)
                 ELSE Raised

_save_to_json(data, filename, ok) ==
    /\ writes' = Append(writes, [sink |-> "json", ok |-> ok, name |-> filename, content |-> data])
    /\ table' = table
    /\ result' = IF ok THEN Returned(<<"Successfully saved data to", filename>>)
                 ELSE Raised

(* Mutant of _save_to_db: if_exists='append' *)
_save_to_db_append(data, table_name, ok) ==
    /\ writes' = Append(writes, [sink |-> "db", ok |-> ok, name |-> table_name, content |-> data])
    /\ table' = IF ok THEN table \o data ELSE table
    /\ result' = IF ok THEN Returned(<<"Data saved to database table", table_name>>)
                 ELSE Raised

(* to_sql(table_name, if_exists='replace') *)
_save_to_db(data, table_name, ok) ==
    /\ writes' = Append(writes, [sink |-> "db", ok |-> ok, name |-> table_name, content |-> data])
    /\ table' = IF ok THEN data ELSE table
    /\ result' = IF ok THEN Returned(<<"Data saved to database table", table_name>>)
                 ELSE Raised

(* '_'.join([k.replace(' ', '_') for k in keywords]) + "_trends_report":    *)
(* the '_'-separated parts of the name                                      *)
filename_base(kws) == Flatten(kws) \o <<"trends", "report">>

(* f"{filename_base}.csv" and the like *)
Filename(base, ext) == [base |-> base, ext |-> ext]

(* Mutant of Save: a format that is none of txt, csv, json, db is refused *)
SaveRefusesUnknown ==
    /\ pc = "save"
    /\ \E ok \in BOOLEAN :
         IF save_format = "csv"
         THEN _save_to_csv(combined_data, Filename(filename_base(keywords), "csv"), ok)
         ELSE IF save_format = "json"
         THEN _save_to_json(combined_data, Filename(filename_base(keywords), "json"), ok)
         ELSE IF save_format = "db"
         THEN _save_to_db(combined_data, "trends", ok)
         ELSE IF save_format = "txt"
         THEN _save_to_txt(report, Filename(filename_base(keywords), "txt"), ok)
         ELSE /\ result' = [status |-> "raised", message |-> <<"unknown save format">>]
              /\ UNCHANGED <<writes, table>>
    /\ pc' = "done"
    /\ UNCHANGED <<keywords, include_related_queries, include_geo_analysis,
                   include_seasonality, save_format, idx, combined_data,
                   report, calls, arg, ret>>

(* Mutant of Save: a data sink that fails is followed by the text sink *)
SaveFallsBackOnError ==
    /\ pc = "save"
    /\ \E ok \in BOOLEAN :
         IF save_format \in {"csv", "json", "db"} /\ ~ok
         THEN /\ writes' = writes \o
                    <<[sink |-> save_format, ok |-> FALSE,
                       name |-> Filename(filename_base(keywords), save_format),
                       content |-> combined_data],
                      [sink |-> "txt", ok |-> TRUE,
                       name |-> Filename(filename_base(keywords), "txt"),
                       content |-> report]>>
              /\ table' = table
              /\ result' = Returned(<<"Successfully saved report to",
                                      Filename(filename_base(keywords), "txt")>>)
         ELSE IF save_format = "csv"
         THEN _save_to_csv(combined_data, Filename(filename_base(keywords), "csv"), ok)
         ELSE IF save_format = "json"
         THEN _save_to_json(combined_data, Filename(filename_base(keywords), "json"), ok)
         ELSE IF save_format = "db"
         THEN _save_to_db(combined_data, "trends", ok)
         ELSE _save_to_txt(report, Filename(filename_base(keywords), "txt"), ok)
    /\ pc' = "done"
    /\ UNCHANGED <<keywords, include_related_queries, include_geo_analysis,
                   include_seasonality, save_format, idx, combined_data,
                   report, calls, arg, ret>>

(* The dispatch on save_format after the loop *)
Save ==
    /\ pc = "save"
    /\ \E ok \in BOOLEAN :
         IF save_format = "csv"
         THEN _save_to_csv(combined_data, Filename(filename_base(keywords), "csv"), ok)
         ELSE IF save_format = "json"
         THEN _save_to_json(combined_data, Filename(filename_base(keywords), "json"), ok)
         ELSE IF save_format = "db"
         THEN _save_to_db(combined_data, "trends", ok)
         ELSE _save_to_txt(report, Filename(filename_base(keywords), "txt"), ok)
    /\ pc' = "done"
    /\ UNCHANGED <<keywords, include_related_queries, include_geo_analysis,
                   include_seasonality, save_format, idx, combined_data,
                   report, calls, arg, ret>>

(* A call of _execute: fresh locals; only the database outlives the call *)
Start(kws, rel, geo, sea, fmt) ==
    /\ keywords = kws
    /\ include_related_queries = rel
    /\ include_geo_analysis = geo
    /\ include_seasonality = sea
    /\ save_format = fmt
    /\ idx = 1
    /\ pc = LoopEntry(kws)
    /\ combined_data = <<>>
    /\ report = <<>>
    /\ calls = <<>>
    /\ writes = <<>>
    /\ result = Running

Init ==
    /\ \E kws \in KeywordLists, rel \in BOOLEAN, geo \in BOOLEAN,
          sea \in BOOLEAN, fmt \in Formats : Start(kws, rel, geo, sea, fmt)
    /\ table = <<>>
    /\ arg = <<>>
    /\ ret = None

(* The host calls the tool again, with other keywords and another save      *)
(* format; the table is what the earlier calls left.                        *)
Invoke ==
    /\ pc = "done"
    /\ \E kws \in KeywordLists, fmt \in Formats :
            /\ keywords' = kws
            /\ save_format' = fmt
            /\ pc' = LoopEntry(kws)
    /\ idx' = 1
    /\ combined_data' = <<>>
    /\ report' = <<>>
    /\ calls' = <<>>
    /\ writes' = <<>>
    /\ result' = Running
    /\ UNCHANGED <<include_related_queries, include_geo_analysis,
                   include_seasonality, table, arg, ret>>

(* One call of _execute, any arguments, on a fresh database *)
Next ==
    \/ FetchInterest
    \/ FetchRelated
    \/ FetchGeo
    \/ FetchSeasonality
    \/ Save

Spec == Init /\ [][Next]_vars

(* Calls of _execute one after the other, without the optional sections *)
InitDb ==
    /\ \E kws \in KeywordLists, fmt \in Formats :
            Start(kws, FALSE, FALSE, FALSE, fmt)
    /\ table = <<>>
    /\ arg = <<>>
    /\ ret = None

NextDb ==
    \/ FetchInterest
    \/ Save
    \/ Invoke

SpecDb == InitDb /\ [][NextDb]_vars

----------------------------------------------------------------------------
(* The report generators called alone, on any table or series *)

Idle ==
    /\ keywords = <<>>
    /\ include_related_queries = FALSE
    /\ include_geo_analysis = FALSE
    /\ include_seasonality = FALSE
    /\ save_format = "txt"
    /\ idx = 1
    /\ pc = "idle"
    /\ combined_data = <<>>
    /\ report = <<>>
    /\ calls = <<>>
    /\ writes = <<>>
    /\ table = <<>>
    /\ result = Running

(* Region-interest tables: region j is the j-th row of the provider; the    *)
(* scores are the two ends of the provider's 0-100 scale.                   *)
GeoScores == {0, 100}

GeoTables ==
    {[j \in 1..Len(vs) |-> [region |-> j, value |-> vs[j]]] :
        vs \in SeqsUpTo(GeoScores, MaxRegions)}

InitGeo ==
    /\ Idle
    /\ arg \in GeoTables
    /\ ret = None

GeoCall ==
    /\ ret = None
    /\ ret' = Some(_generate_geo_report(arg, <<"ai">>))
    /\ UNCHANGED <<execVars, arg>>

NextGeo == GeoCall

SpecGeo == InitGeo /\ [][NextGeo]_vars

(* Full-history series *)
HistorySeries == SeqsUpTo(0..MaxHistVal, MaxHistory)

InitSeasonality ==
    /\ Idle
    /\ arg \in HistorySeries
    /\ ret = None

SeasonalityCall ==
    /\ ret = None
    /\ ret' = Some(_generate_seasonality_report(arg, <<"ai">>))
    /\ UNCHANGED <<execVars, arg>>

NextSeasonality == SeasonalityCall

SpecSeasonality == InitSeasonality /\ [][NextSeasonality]_vars

----------------------------------------------------------------------------
(* Vocabulary of the properties *)

Positions == 1..Len(keywords)

AfterLoop == pc \in {"save", "done"}

CallsAt(j) == SelectSeq(calls, LAMBDA c : c.pos = j)

SectionsAt(j) == SelectSeq(report, LAMBDA s : s.pos = j)

RowsAt(j) == SelectSeq(combined_data, LAMBDA r : r.pos = j)

ErrorLinesAt(j) == SelectSeq(SectionsAt(j), LAMBDA s : s.kind = "error")

RaisedAt(j) == \E n \in 1..Len(calls) : calls[n].pos = j /\ calls[n].outcome = "raised"

InterestWas(j, outcome) ==
    \E n \in 1..Len(calls) :
        /\ calls[n].pos = j
        /\ calls[n].call = "interest_over_time"
        /\ calls[n].outcome = outcome

InListOrder(seq) == \A a \in 1..(Len(seq) - 1) : seq[a].pos <= seq[a + 1].pos

(* No keyword occurs twice in the list *)
Distinct(seq) == \A a \in 1..Len(seq), b \in 1..Len(seq) : seq[a] = seq[b] => a = b

(* The keywords a section names: the one of its title, then those of its    *)
(* header row                                                               *)
NamedIn(section) ==
    <<section.keyword>> \o SelectSeq(section.header, LAMBDA cell : cell \in Range(keywords))

DataSinks == {"csv", "json", "db"}

SinkOf(fmt) == IF fmt \in DataSinks THEN fmt ELSE "txt"

SectionRank(kind) ==
    CASE kind = "trend" -> 1
      [] kind = "related" -> 2
      [] kind = "geo" -> 3
      [] kind = "seasonality" -> 4

----------------------------------------------------------------------------
(* C1: a provider error on one keyword does not stop the batch.  Once the   *)
(* loop is over, every keyword of the list has been queried, calls,         *)
(* sections and rows are in list order, every keyword whose series came     *)
(* back non-empty has its trend section first among its sections and its    *)
(* rows in the combined dataset, whatever the other keywords did, and a     *)
(* keyword has exactly one error line, naming it, if a call of it raised    *)
(* and none otherwise.                                                      *)
C1_ErrorDoesNotStopBatch ==
    AfterLoop =>
        /\ InListOrder(calls)
        /\ InListOrder(report)
        /\ InListOrder(combined_data)
        /\ \A j \in Positions :
            LET called == CallsAt(j)
                sections == SectionsAt(j)
                rows == RowsAt(j)
                errors == ErrorLinesAt(j)
            IN  /\ called # <<>>
                /\ called[1].call = "interest_over_time"
                /\ called[1].outcome = "data" =>
                    /\ sections # <<>>
                    /\ sections[1].kind = "trend"
                    /\ sections[1].keyword = keywords[j]
                    /\ rows # <<>>
                    /\ \A n \in 1..Len(rows) : rows[n].keyword = keywords[j]
                /\ Len(errors) = IF RaisedAt(j) THEN 1 ELSE 0
                /\ \A n \in 1..Len(errors) : errors[n].keyword = keywords[j]

C1_Witness ==
    /\ pc = "done"
    /\ Len(keywords) = 2
    /\ RaisedAt(1)
    /\ InterestWas(2, "data")
    /\ RowsAt(2) # <<>>
    /\ Len(ErrorLinesAt(1)) = 1

(* C2: no row of a keyword one of whose calls raised is in the combined     *)
(* dataset handed to the csv, json or db sink (stated for lists without a   *)
(* repeated keyword).                                                       *)
C2_NoRowsOfFailedKeyword ==
    Distinct(keywords) =>
        \A n \in 1..Len(writes) :
            writes[n].sink \in DataSinks =>
                \A r \in 1..Len(writes[n].content) :
                    ~RaisedAt(writes[n].content[r].pos)

(* C3: with a save_format that is none of csv, json, db, the call ends with *)
(* one write, of the composed report, to the text file named after the      *)
(* keywords; it returns the confirmation naming that file, and raises only  *)
(* if that write itself fails.                                              *)
C3_UnknownFormatFallsBackToText ==
    (pc = "done" /\ save_format \notin DataSinks) =>
        /\ Len(writes) = 1
        /\ writes[1].sink = "txt"
        /\ writes[1].name = Filename(filename_base(keywords), "txt")
        /\ writes[1].content = report
        /\ result = IF writes[1].ok
                    THEN Returned(<<"Successfully saved report to",
                                    Filename(filename_base(keywords), "txt")>>)
                    ELSE Raised

C3_Witness ==
    /\ pc = "done"
    /\ save_format = "xml"
    /\ report # <<>>
    /\ writes # <<>>
    /\ writes[1].sink = "txt"
    /\ result.status = "returned"

(* C4: with the three optional sections off and every keyword returning     *)
(* data, the report is one trend section that names every keyword, in input *)
(* order (stated for lists without a repeated keyword; the title of the     *)
(* section counts as part of its header).                                   *)
C4_OneTrendSectionNamingAllKeywords ==
    (/\ AfterLoop
     /\ keywords # <<>>
     /\ Distinct(keywords)
     /\ ~include_related_queries
     /\ ~include_geo_analysis
     /\ ~include_seasonality
     /\ \A j \in Positions : InterestWas(j, "data")) =>
        /\ Len(report) = 1
        /\ report[1].kind = "trend"
        /\ NamedIn(report[1]) = keywords

(* C8: in the report the sections come in the order trend, related, geo,    *)
(* seasonality, and a section whose flag is false does not appear (stated   *)
(* for lists without a repeated keyword).                                   *)
C8_FixedSectionOrder ==
    Distinct(keywords) =>
    /\ \A a \in 1..Len(report), b \in 1..Len(report) :
        (/\ a < b
         /\ report[a].kind \in {"trend", "related", "geo", "seasonality"}
         /\ report[b].kind \in {"trend", "related", "geo", "seasonality"}) =>
            SectionRank(report[a].kind) <= SectionRank(report[b].kind)
    /\ \A a \in 1..Len(report) :
        /\ report[a].kind = "related" => include_related_queries
        /\ report[a].kind = "geo" => include_geo_analysis
        /\ report[a].kind = "seasonality" => include_seasonality

(* C9: a keyword whose interest-over-time result is empty gets exactly one  *)
(* no-data note naming it and nothing else: no row, no further provider     *)
(* call, no error line; the loop moves on, every keyword of the list is     *)
(* queried by the end of the loop, and the call raises only if the sink     *)
(* write fails.                                                             *)
C9_NoDataIsNotedAndSkipped ==
    \A j \in Positions :
        InterestWas(j, "empty") =>
            /\ Len(CallsAt(j)) = 1
            /\ LET sections == SectionsAt(j)
               IN  /\ Len(sections) = 1
                   /\ sections[1].kind = "nodata"
                   /\ sections[1].keyword = keywords[j]
            /\ RowsAt(j) = <<>>
            /\ ~RaisedAt(j)
            /\ idx > j
            /\ AfterLoop => \A k \in Positions : CallsAt(k) # <<>>
            /\ result.status = "raised" => (writes # <<>> /\ ~writes[1].ok)

C9_Witness ==
    /\ pc = "done"
    /\ Len(keywords) = 2
    /\ include_related_queries
    /\ InterestWas(1, "empty")
    /\ InterestWas(2, "data")
    /\ Len(SectionsAt(2)) > 1
    /\ result.status = "returned"

(* C10: a call makes one sink write attempt, none before the loop is over   *)
(* and every keyword has been queried; the attempt goes to the sink of      *)
(* save_format and to no other; if it fails the call raises the sink's      *)
(* error, and there is no other attempt.                                    *)
C10_OneWriteAfterTheLoop ==
    /\ Len(writes) <= 1
    /\ pc = "done" => Len(writes) = 1
    /\ writes = <<>> => (result = Running /\ table = <<>>)
    /\ writes # <<>> =>
        /\ pc = "done"
        /\ idx = Len(keywords) + 1
        /\ \A j \in Positions : CallsAt(j) # <<>>
        /\ writes[1].sink = SinkOf(save_format)
        /\ writes[1].sink # "db" => table = <<>>
        /\ result.status = IF writes[1].ok THEN "returned" ELSE "raised"

C10_Witness ==
    /\ pc = "done"
    /\ Len(keywords) = 2
    /\ RaisedAt(1)
    /\ Len(writes) = 1
    /\ ~writes[1].ok
    /\ result = Raised

----------------------------------------------------------------------------
(* C5: the geo section lists at most 10 regions, each a row of the table,   *)
(* with values that do not increase down the list, and no region left out   *)
(* has a value above a listed one.                                          *)
C5_GeoTopTenDescending ==
    ret # None =>
        LET lines == ValueOf(ret).lines
            listed == {lines[n][1] : n \in 1..Len(lines)}
        IN  /\ Len(lines) <= 10
            /\ \A n \in 1..Len(lines) :
                /\ lines[n][1] \in 1..Len(arg)
                /\ arg[lines[n][1]].value = lines[n][2]
            /\ \A n \in 1..(Len(lines) - 1) : lines[n][2] >= lines[n + 1][2]
            /\ \A n \in 1..Len(lines), r \in 1..Len(arg) :
                r \notin listed => lines[n][2] >= arg[r].value

C5_Witness ==
    /\ ret # None
    /\ Len(arg) = 11
    /\ arg[1].value = 0
    /\ arg[11].value = 100
    /\ Len(ValueOf(ret).lines) = 10
    /\ ValueOf(ret).lines[1] = <<11, 100>>

(* C6: for a non-empty full-history series the seasonality section has one  *)
(* peak line for each date whose value is the maximum of the series and for *)
(* no other date, in date order, each giving that maximum.                  *)
C6_AllPeakDatesReported ==
    (ret # None /\ arg # <<>>) =>
        LET lines == ValueOf(ret).lines
            IsMax(m) == m \in Range(arg) /\ \A v \in Range(arg) : v <= m
        IN  /\ Len(lines) >= 1
            /\ \A n \in 1..Len(lines) :
                /\ IsMax(lines[n][2])
                /\ lines[n][1] \in 1..Len(arg)
                /\ arg[lines[n][1]] = lines[n][2]
            /\ \A d \in 1..Len(arg) :
                IsMax(arg[d]) => \E n \in 1..Len(lines) : lines[n][1] = d
            /\ \A n \in 1..(Len(lines) - 1) : lines[n][1] < lines[n + 1][1]

C6_Witness ==
    /\ ret # None
    /\ arg = <<1, 2, 2>>
    /\ ValueOf(ret).lines = <<<<2, 2>>, <<3, 2>>>>

----------------------------------------------------------------------------
====
